---- MODULE Spec2Model ----
(***************************************************************************)
(* Invoice lifecycle of build-easy-quickstart: the InvoiceList component   *)
(* (sign & send), the send-invoice-email function, the invoices INSERT     *)
(* policy and the set_invoice_number trigger function.                     *)
(*                                                                         *)
(* Spec       the signature workflow: browser tabs of one vendor running   *)
(*            InvoiceList against the shared store, one step per await.    *)
(* SpecStore  the storage boundary: inserts through the INSERT policy and  *)
(*            the numbering trigger, and the signature updates.            *)
(***************************************************************************)
EXTENDS Integers, Sequences, FiniteSets, TLC

\* ------------------------------------------------------------------ bounds
\* Timestamps handed out by the clock (new Date(), NOW()): every write that
\* stamps a time needs now < MaxTime, which also bounds the sign attempts.
MaxTime == 3

\* ------------------------------------------------------------------ values
\* A nullable value is Null or Some(v).
Null == <<>>
Some(v) == <<v>>

Sessions == {"tabA", "tabB"}
InvoiceIds == {"inv1", "inv2"}
Vendor == "v1"
Client == "c1"
Stranger == "x1"
Anon == "anon"
Account == "acct1"

\* A name is a sequence of characters.
BusinessName == <<"A">>
Names == {<<>>, <<" ">>, <<"A">>, <<"a">>, <<"Z">>}

\* String.prototype.toLowerCase, character by character.
LowerChar(c) ==
  CASE c = "A" -> "a"
    [] c = "Z" -> "z"
    [] OTHER -> c

toLowerCase(str) == [k \in 1..Len(str) |-> LowerChar(str[k])]

RECURSIVE trimStart(_)
trimStart(str) ==
  IF str # <<>> /\ Head(str) = " " THEN trimStart(Tail(str)) ELSE str

RECURSIVE trimEnd(_)
trimEnd(str) ==
  IF str # <<>> /\ str[Len(str)] = " "
  THEN trimEnd(SubSeq(str, 1, Len(str) - 1))
  ELSE str

\* Faulty variant of trim: the input is taken as typed.
trim_none(str) == str

\* String.prototype.trim, as used on the signature input.
trim(str) == trimEnd(trimStart(str))

\* ------------------------------------------------------------------- state
VARIABLES
  invoices,         \* public.invoices: id -> Null (no such row) or Some(row)
  inserting,        \* rows of INSERTs not yet committed, by id
  lastInsert,       \* the last INSERT attempted, and its outcome
  legal_seq,        \* the last legal invoice number handed out
  vendor_profiles,  \* vendor_profiles, by user_id
  accounts,         \* the processor's connected accounts: id -> flags
  auth_users,       \* auth users: id -> email (nullable)
  stripeSessions,   \* payment sessions created at the processor, per invoice
  emails,           \* notifications handed to the mail provider, per invoice
  now,              \* the clock
  ui,               \* per browser tab: the InvoiceList component's state
  toast,            \* the last toast shown
  response,         \* the last answer of an edge function
  env,              \* the functions' environment: FRONTEND_URL
  stripeCalls,      \* the processor calls made for the last onboarding request
  windows,          \* the client's browser: windows opened, store lookups made
  user_roles,       \* user_roles: the roles each user holds
  guard             \* the RoleGuard component's props, auth context and state

vars == <<invoices, inserting, lastInsert, legal_seq, vendor_profiles, accounts, auth_users,
          stripeSessions, emails, now, ui, toast, response, env, stripeCalls,
          windows, user_roles, guard>>

Exists(i) == invoices[i] # Null
Row(i) == invoices[i][1]

\* The client's browser tab.
ClientSessions == {"tabC"}

\* InvoiceListProps of each tab: the tabs of Sessions are the same vendor,
\* the tab of ClientSessions is the invoices' client.
userRole(s) == IF s \in ClientSessions THEN "client" ELSE "vendor"
userId(s) == IF s \in ClientSessions THEN Client ELSE Vendor

\* An invoice as its creation leaves it: numbered, stamped, unsigned, draft.
\* created_by, vendor_side_writer and client_side_writer are history, not
\* columns: the identity that inserted the row and the identities that last
\* wrote each pair of signature fields.
DraftRow(vendor, client, number, clientSigned) ==
  [ vendor_id |-> vendor, client_id |-> client, status |-> "draft",
    created_by |-> vendor, vendor_side_writer |-> Null,
    client_side_writer |-> IF clientSigned THEN Some(client) ELSE Null,
    legal_invoice_number |-> Some(number), invoice_number |-> Some(number),
    issued_at |-> Some(0), tax_point |-> Some(0),
    vendor_signed_at |-> Null, vendor_signature_url |-> Null,
    client_signed_at |-> IF clientSigned THEN Some(0) ELSE Null,
    client_signature_url |-> IF clientSigned THEN Some(<<"Z">>) ELSE Null,
    stripe_pdf_url |-> Null, stripe_hosted_invoice_url |-> Null ]

\* useState initial values of InvoiceList; the mount effect has called
\* fetchInvoices, which has set loading and awaits the query.
InitialUi ==
  [ invoices |-> [i \in InvoiceIds |-> Null], loading |-> TRUE,
    signatureModal |-> FALSE, selectedInvoice |-> Null, signature |-> <<>>,
    processing |-> FALSE, pc |-> "idle",
    vendorProfile |-> Null, stripeError |-> Null, payNow |-> Null ]

NoInsert == [uid |-> "none", vendor_id |-> "none", client_id |-> "none",
             accepted |-> FALSE]

NoResponse == [function |-> "none", invoiceId |-> "none", error |-> Null, data |-> Null]

\* FRONTEND_URL is not set.
NoEnv == [FRONTEND_URL |-> <<>>]

\* No window was opened by the page, no lookup made by handlePayNow.
NoWindows == [opened |-> <<>>, lookups |-> 0]

\* No user holds a role; no RoleGuard is mounted.
NoRoles == [u \in {Vendor} |-> {}]
NoGuard == [pc |-> "none"]

\* The vendor's profile, connected account and the invoice's client as the
\* workflow finds them: not onboarded, or onboarded with the account's flags.
Init ==
  /\ \E clientSigned \in BOOLEAN :
       invoices = [i \in InvoiceIds |->
                     IF i = "inv1"
                     THEN Some(DraftRow(Vendor, Client, 1, clientSigned))
                     ELSE Null]
  /\ inserting = [i \in InvoiceIds |-> Null]
  /\ lastInsert = NoInsert
  /\ legal_seq = 1
  /\ \E connect \in {Null, Some(Account)}, charges \in BOOLEAN, payouts \in BOOLEAN :
       /\ IF connect = Null THEN ~charges /\ ~payouts ELSE charges \/ payouts
       /\ vendor_profiles =
            [u \in {Vendor} |-> [ business_name |-> BusinessName,
                                  stripe_connect_id |-> connect ]]
       /\ accounts = [a \in {Account} |-> [ charges_enabled |-> charges,
                                            payouts_enabled |-> payouts ]]
  /\ auth_users = [u \in {Client} |-> Some("c1@mail")]
  /\ stripeSessions = [i \in InvoiceIds |-> 0]
  /\ emails = [i \in InvoiceIds |-> 0]
  /\ now = 1
  /\ ui = [s \in Sessions |-> InitialUi]
  /\ toast = [title |-> "none", description |-> "none"]
  /\ response = NoResponse
  /\ env = NoEnv
  /\ stripeCalls = <<>>
  /\ windows = NoWindows
  /\ user_roles = NoRoles
  /\ guard = NoGuard

inserts == <<inserting, lastInsert>>

guarding == <<user_roles, guard>>

outside == <<env, stripeCalls, windows, guarding>>

store == <<invoices, inserts, legal_seq, vendor_profiles, accounts, auth_users,
           stripeSessions, emails, now, response, outside>>

unguarded == <<invoices, inserts, legal_seq, vendor_profiles, accounts, auth_users,
               stripeSessions, emails, now, response, env, stripeCalls, windows, ui>>

SetUi(s, r) == ui' = [ui EXCEPT ![s] = r]

\* toast({ title, description }) in tab s.
Toast(s, title, description) ==
  toast' = [title |-> title, description |-> description]

\* ------------------------------------------------------ storage boundary
\* generate_legal_invoice_number(): the next sequential legal number.
generate_legal_invoice_number(seq) == seq + 1

\* Faulty variant of set_invoice_number: the legal number is generated without the
\* IS NULL test.
set_invoice_number_always(new, seq, time) ==
  LET legal == Some(generate_legal_invoice_number(seq))
  IN [ row |-> [new EXCEPT
                  !.legal_invoice_number = legal,
                  !.invoice_number = IF @ = Null THEN legal ELSE @,
                  !.issued_at = IF @ = Null THEN Some(time) ELSE @,
                  !.tax_point = IF @ = Null THEN Some(time) ELSE @],
       seq |-> generate_legal_invoice_number(seq) ]

\* The trigger function set_invoice_number on the incoming row (NEW), at
\* transaction time `time`: the returned row and the sequence after it.
set_invoice_number(new, seq, time) ==
  LET generated == new.legal_invoice_number = Null
      legal == IF generated
               THEN Some(generate_legal_invoice_number(seq))
               ELSE new.legal_invoice_number
  IN [ row |-> [new EXCEPT
                  !.legal_invoice_number = legal,
                  !.invoice_number = IF @ = Null THEN legal ELSE @,
                  !.issued_at = IF @ = Null THEN Some(time) ELSE @,
                  !.tax_point = IF @ = Null THEN Some(time) ELSE @],
       seq |-> IF generated THEN generate_legal_invoice_number(seq) ELSE seq ]

\* Faulty variant of InsertPolicy: the dropped policy "Clients can create invoices".
InsertPolicy_clientsOnly(uid, row) ==
  uid # Anon /\ uid = row.client_id

\* POLICY "Vendors and clients can create invoices", WITH CHECK
\* (auth.uid() = vendor_id OR auth.uid() = client_id); auth.uid() is NULL for
\* a request without a user, and NULL equals nothing.
InsertPolicy(uid, row) ==
  uid # Anon /\ (uid = row.vendor_id \/ uid = row.client_id)

\* Row-level security of UPDATE on invoices: the vendor-side fields are the
\* vendor's to write, the client-side fields the client's.
UpdatePolicy(uid, row, side) ==
  IF side = "vendor" THEN uid = row.vendor_id ELSE uid = row.client_id

\* Faulty variant of SignatureUpdate: the update is not executed.
SignatureUpdate_notWritten(uid, id, side, time, name) ==
  [ invoices |-> invoices, legal_seq |-> legal_seq ]

\* Faulty variant of SignatureUpdate: the update writes the signature pairs
\* of both sides.
SignatureUpdate_bothSides(uid, id, side, time, name) ==
  IF Exists(id) /\ UpdatePolicy(uid, Row(id), side)
  THEN [ invoices |-> [invoices EXCEPT ![id] =
                         Some([Row(id) EXCEPT !.vendor_signed_at = Some(time),
                                              !.vendor_signature_url = Some(name),
                                              !.vendor_side_writer = Some(uid),
                                              !.client_signed_at = Some(time),
                                              !.client_signature_url = Some(name),
                                              !.client_side_writer = Some(uid)])],
         legal_seq |-> legal_seq ]
  ELSE [ invoices |-> invoices, legal_seq |-> legal_seq ]

\* The signature update of processSignature as the store executes it for the
\* authenticated uid: .update({<side>_signed_at, <side>_signature_url})
\* .eq('id', id). A row the policy hides is not updated and no error is
\* returned. The row trigger runs on the updated row.
SignatureUpdate(uid, id, side, time, name) ==
  IF Exists(id) /\ UpdatePolicy(uid, Row(id), side)
  THEN LET patched ==
             IF side = "vendor"
             THEN [Row(id) EXCEPT !.vendor_signed_at = Some(time),
                                  !.vendor_signature_url = Some(name),
                                  !.vendor_side_writer = Some(uid)]
             ELSE [Row(id) EXCEPT !.client_signed_at = Some(time),
                                  !.client_signature_url = Some(name),
                                  !.client_side_writer = Some(uid)]
           fired == set_invoice_number(patched, legal_seq, time)
       IN [ invoices |-> [invoices EXCEPT ![id] = Some(fired.row)],
            legal_seq |-> fired.seq ]
  ELSE [ invoices |-> invoices, legal_seq |-> legal_seq ]

\* ---------------------------------------------------------- payment bridge
HostedUrl(id, n) == <<"hosted", id, n>>
PdfUrl(id, n) == <<"pdf", id, n>>

SetupRequired == "setup required"
UpstreamFailure == "upstream failure"

\* Faulty variant of createOrGetHostedSession: no look-up of the invoice's hosted
\* URL, every call to an enabled account creates a session.
createOrGetHostedSession_noLookup(id, acct) ==
  LET row == Row(id)
      n == stripeSessions[id] + 1
      failed(e) == [ error |-> Some(e), data |-> Null, row |-> row, created |-> 0 ]
  IN {failed(UpstreamFailure)} \cup
     IF ~(accounts[acct].charges_enabled /\ accounts[acct].payouts_enabled)
     THEN {failed(SetupRequired)}
     ELSE {[ error |-> Null, data |-> Some(HostedUrl(id, n)),
             row |-> [row EXCEPT !.stripe_hosted_invoice_url = Some(HostedUrl(id, n)),
                                 !.stripe_pdf_url = Some(PdfUrl(id, n)),
                                 !.status = "sent"],
             created |-> 1 ]}

\* The function stripe-create-invoice, createOrGetHostedSession(invoice,
\* payoutAccountId): the outcomes it can have. An invoice that has a hosted
\* URL gets it back unchanged; otherwise the account must have charges and
\* payouts enabled, and the session is created, its URLs are persisted on
\* the invoice and the invoice becomes 'sent'. Any call can fail upstream.
createOrGetHostedSession(id, acct) ==
  LET row == Row(id)
      n == stripeSessions[id] + 1
      failed(e) == [ error |-> Some(e), data |-> Null, row |-> row, created |-> 0 ]
  IN {failed(UpstreamFailure)} \cup
     IF row.stripe_hosted_invoice_url # Null
     THEN {[ error |-> Null, data |-> row.stripe_hosted_invoice_url,
             row |-> row, created |-> 0 ]}
     ELSE IF ~(accounts[acct].charges_enabled /\ accounts[acct].payouts_enabled)
     THEN {failed(SetupRequired)}
     ELSE {[ error |-> Null, data |-> Some(HostedUrl(id, n)),
             row |-> [row EXCEPT !.stripe_hosted_invoice_url = Some(HostedUrl(id, n)),
                                 !.stripe_pdf_url = Some(PdfUrl(id, n)),
                                 !.status = "sent"],
             created |-> 1 ]}

\* ------------------------------------------------------ send-invoice-email
\* Faulty variant of sendInvoiceEmail: the client's email is not tested
\* before the send.
sendInvoiceEmail_anyRecipient(id) ==
  LET thrown(e) == [ sent |-> FALSE, error |-> Some(e), status |-> 500 ]
  IN {thrown("invoice error")} \cup
     IF ~Exists(id) THEN {}
     ELSE {thrown("email error"), [ sent |-> TRUE, error |-> Null, status |-> 200 ]}

\* serve of send-invoice-email for invoiceId: whether the mail was handed to
\* the provider, and the error of the answer (status 500) if any. The invoice
\* lookup can fail, the client may have no email, the provider can answer
\* with an error.
sendInvoiceEmail(id) ==
  LET thrown(e) == [ sent |-> FALSE, error |-> Some(e), status |-> 500 ]
  IN {thrown("invoice error")} \cup
     IF ~Exists(id) THEN {}
     ELSE IF auth_users[Row(id).client_id] = Null
     THEN {thrown("Client email not found")}
     ELSE {thrown("email error"), [ sent |-> TRUE, error |-> Null, status |-> 200 ]}

\* ------------------------------------------------------------ InvoiceList
\* interface Invoice: what the component reads of a fetched row (the numbers,
\* amounts and created_at, which nothing changes, are left out).
Invoice(row) ==
  [ status |-> row.status, vendor_signed_at |-> row.vendor_signed_at,
    client_signed_at |-> row.client_signed_at,
    stripe_pdf_url |-> row.stripe_pdf_url,
    stripe_hosted_invoice_url |-> row.stripe_hosted_invoice_url ]

\* fetchInvoices, from the query's answer on: the rows of this vendor (or
\* client), or an error toast that leaves the list as it was.
fetchInvoices(s) ==
  /\ ui[s].loading
  /\ \E error \in BOOLEAN :
       IF error
       THEN /\ SetUi(s, [ui[s] EXCEPT !.loading = FALSE])
            /\ Toast(s, "Error", "fetch error")
       ELSE /\ SetUi(s, [ui[s] EXCEPT
                 !.invoices =
                   [i \in InvoiceIds |->
                      IF /\ Exists(i)
                         /\ IF userRole(s) = "vendor"
                            THEN Row(i).vendor_id = userId(s)
                            ELSE Row(i).client_id = userId(s)
                      THEN Some(Invoice(Row(i)))
                      ELSE Null],
                 !.loading = FALSE])
            /\ UNCHANGED toast
  /\ UNCHANGED store

\* The "Sign & Send Invoice" button of a listed invoice is rendered.
SignButtonShown(s, i) ==
  /\ ~ui[s].loading
  /\ userRole(s) = "vendor"
  /\ ui[s].invoices[i] # Null
  /\ ui[s].invoices[i][1].vendor_signed_at = Null
  /\ ui[s].invoices[i][1].status = "draft"
  /\ ~ui[s].processing

\* handleSignInvoice: prefill the signature with the business name on file
\* (empty when the profile lookup gives none), select the invoice, open the
\* dialog.
handleSignInvoice(s, i) ==
  /\ SignButtonShown(s, i)
  /\ ~ui[s].signatureModal
  /\ \E found \in BOOLEAN :
       SetUi(s, [ui[s] EXCEPT
         !.signature =
           IF userRole(s) = "vendor"
           THEN (IF found THEN vendor_profiles[userId(s)].business_name ELSE <<>>)
           ELSE ui[s].signature,
         !.selectedInvoice = Some(i),
         !.signatureModal = TRUE])
  /\ UNCHANGED <<store, toast>>

\* The dialog's input: onChange sets the signature.
setSignature(s, name) ==
  /\ ~ui[s].loading
  /\ ui[s].signatureModal
  /\ name # ui[s].signature
  /\ SetUi(s, [ui[s] EXCEPT !.signature = name])
  /\ UNCHANGED <<store, toast>>

\* The dialog's Cancel button and onOpenChange.
setSignatureModal(s) ==
  /\ ~ui[s].loading
  /\ ui[s].signatureModal
  /\ ~ui[s].processing
  /\ SetUi(s, [ui[s] EXCEPT !.signatureModal = FALSE])
  /\ UNCHANGED <<store, toast>>

\* The handler's locals go out of scope when it returns.
Returned(s) ==
  [ui[s] EXCEPT !.processing = FALSE, !.pc = "idle", !.vendorProfile = Null,
                !.stripeError = Null]

\* catch (error) { toast } finally { setProcessing(false) }
Caught(s, message) ==
  /\ SetUi(s, Returned(s))
  /\ Toast(s, "Error", message)

\* The success toast; setSignatureModal(false); setSignature("");
\* fetchInvoices() (which sets loading); finally.
Finished(s, description) ==
  /\ SetUi(s, [Returned(s) EXCEPT !.signatureModal = FALSE, !.signature = <<>>,
                                  !.loading = TRUE])
  /\ Toast(s, "Success", description)

\* processSignature up to its first await: the validation, setProcessing and
\* the signature update being sent.
processSignature(s) ==
  /\ ~ui[s].loading
  /\ ui[s].signatureModal
  /\ ~ui[s].processing
  /\ ui[s].pc = "idle"
  /\ IF ui[s].selectedInvoice = Null \/ trim(ui[s].signature) = <<>>
     THEN /\ Toast(s, "Error", "Please enter your signature")
          /\ UNCHANGED ui
     ELSE /\ SetUi(s, [ui[s] EXCEPT !.processing = TRUE, !.pc = "update"])
          /\ UNCHANGED toast
  /\ UNCHANGED store

\* The signature update is executed and answered: an error is thrown to the
\* catch block; otherwise the vendor path goes on to the profile lookup and
\* the client path is finished.
processSignature_update(s) ==
  /\ ui[s].pc = "update"
  /\ \/ /\ Caught(s, "update error")
        /\ UNCHANGED store
     \/ /\ now < MaxTime
        /\ UNCHANGED response
        /\ LET side == IF userRole(s) = "vendor" THEN "vendor" ELSE "client"
               upd == SignatureUpdate(userId(s), ui[s].selectedInvoice[1], side,
                                      now, ui[s].signature)
           IN /\ invoices' = upd.invoices
              /\ legal_seq' = upd.legal_seq
        /\ now' = now + 1
        /\ IF userRole(s) = "vendor"
           THEN /\ SetUi(s, [ui[s] EXCEPT !.pc = "profile"])
                /\ UNCHANGED toast
           ELSE Finished(s, "Invoice acknowledged")
        /\ UNCHANGED <<inserts, vendor_profiles, accounts, auth_users,
                       stripeSessions, emails, outside>>

\* The vendor's stripe_connect_id is looked up: without one (or without an
\* answer) the handler shows "Stripe Setup Required" and returns.
processSignature_profile(s) ==
  /\ ui[s].pc = "profile"
  /\ \E found \in BOOLEAN :
       LET connect == IF found THEN vendor_profiles[userId(s)].stripe_connect_id
                      ELSE Null
       IN IF connect = Null
          THEN /\ SetUi(s, Returned(s))
               /\ Toast(s, "Stripe Setup Required",
                        "Please complete Stripe Connect onboarding first")
          ELSE /\ SetUi(s, [ui[s] EXCEPT !.vendorProfile = connect, !.pc = "stripe"])
               /\ UNCHANGED toast
  /\ UNCHANGED store

\* Faulty variant of stripeErrorThrown: the bridge's error is not looked at.
stripeErrorIgnored(stripeError) == FALSE

\* if (stripeError) throw stripeError
stripeErrorThrown(stripeError) == stripeError # Null

\* error.message of a failed functions.invoke: the client library's message,
\* whatever the function answered.
FunctionsErrorMessage(error) == "Edge Function returned a non-2xx status code"

\* stripe-create-invoice is invoked for the selected invoice and answers.
processSignature_stripe(s) ==
  /\ ui[s].pc = "stripe"
  /\ LET id == ui[s].selectedInvoice[1] IN
     \E out \in createOrGetHostedSession(id, ui[s].vendorProfile[1]) :
       /\ invoices' = [invoices EXCEPT ![id] = Some(out.row)]
       /\ stripeSessions' = [stripeSessions EXCEPT ![id] = @ + out.created]
       /\ IF stripeErrorThrown(out.error)
          THEN Caught(s, FunctionsErrorMessage(out.error))
          ELSE /\ SetUi(s, [ui[s] EXCEPT !.stripeError = out.error, !.pc = "email"])
               /\ UNCHANGED toast
       /\ response' = [function |-> "stripe-create-invoice", invoiceId |-> id,
                       error |-> out.error, data |-> out.data]
  /\ UNCHANGED <<inserts, legal_seq, vendor_profiles, accounts, auth_users,
                 emails, now, outside>>

\* send-invoice-email is invoked and awaited, its answer is not looked at;
\* then the success toast, the dialog closes and the list is fetched again.
processSignature_email(s) ==
  /\ ui[s].pc = "email"
  /\ LET id == ui[s].selectedInvoice[1] IN
     \E out \in sendInvoiceEmail(id) :
       /\ emails' = [emails EXCEPT ![id] = IF out.sent THEN @ + 1 ELSE @]
       /\ response' = [function |-> "send-invoice-email", invoiceId |-> id,
                       error |-> out.error, data |-> Null]
  /\ Finished(s, "Invoice signed and sent to client")
  /\ UNCHANGED <<invoices, inserts, legal_seq, vendor_profiles, accounts,
                 auth_users, stripeSessions, now, outside>>

\* Steps of a tab's sign attempt, as seen in one transition.
StripeAnswered(s) == ui[s].pc = "stripe" /\ ui'[s].pc # "stripe"
ReportedSuccess(s) == ui[s].pc = "email" /\ ui'[s].pc = "idle"
Selected(s) == ui[s].selectedInvoice[1]

Next ==
  \/ \E s \in Sessions : fetchInvoices(s)
  \/ \E s \in Sessions, i \in InvoiceIds : handleSignInvoice(s, i)
  \/ \E s \in Sessions, name \in Names : setSignature(s, name)
  \/ \E s \in Sessions : setSignatureModal(s)
  \/ \E s \in Sessions : processSignature(s)
  \/ \E s \in Sessions : processSignature_update(s)
  \/ \E s \in Sessions : processSignature_profile(s)
  \/ \E s \in Sessions : processSignature_stripe(s)
  \/ \E s \in Sessions : processSignature_email(s)

Spec == Init /\ [][Next]_vars

\* ------------------------------------------------- the storage boundary
\* The row of an INSERT as the request gives it: the parties, the numbering
\* and date columns (null when left out), and the vendor signature pair,
\* which a request may also supply. Everything else takes its default.
NewInvoice(vendor, client, legal, number, issued, taxPoint, signed) ==
  [ DraftRow(vendor, client, 0, FALSE) EXCEPT
      !.legal_invoice_number = legal,
      !.invoice_number = number,
      !.issued_at = issued,
      !.tax_point = taxPoint,
      !.vendor_signed_at = IF signed THEN Some(now) ELSE Null,
      !.vendor_signature_url = IF signed THEN Some(BusinessName) ELSE Null ]

\* The requests tried: either vendor, the legal number left out or given,
\* the vendor signature left out or given.
NewInvoices ==
  { NewInvoice(vendor, Client, legal, Null, Null, Null, signed) :
      vendor \in {Vendor, Stranger},
      legal \in {Null, Some(1)},
      signed \in BOOLEAN }

\* INSERT INTO invoices by the authenticated uid (or nobody), in its own
\* transaction: the BEFORE INSERT trigger set_invoice_number runs on the new
\* row, then the policy's WITH CHECK decides; a refused row is not inserted.
InsertInvoice(uid, id, new) ==
  /\ invoices[id] = Null
  /\ inserting[id] = Null
  /\ LET fired == set_invoice_number(new, legal_seq, now)
         accepted == InsertPolicy(uid, fired.row)
         written == [fired.row EXCEPT
                       !.created_by = uid,
                       !.vendor_side_writer =
                         IF new.vendor_signed_at # Null THEN Some(uid) ELSE Null]
     IN /\ inserting' = IF accepted
                        THEN [inserting EXCEPT ![id] = Some(written)]
                        ELSE inserting
        /\ legal_seq' = IF accepted THEN fired.seq ELSE legal_seq
        /\ lastInsert' = [ uid |-> uid, vendor_id |-> new.vendor_id,
                           client_id |-> new.client_id, accepted |-> accepted ]
  /\ UNCHANGED <<invoices, vendor_profiles, accounts, auth_users, stripeSessions,
                 emails, now, ui, toast, response, outside>>

\* The INSERT's transaction commits: the row is in the table.
CommitInsert(id) ==
  /\ inserting[id] # Null
  /\ invoices' = [invoices EXCEPT ![id] = inserting[id]]
  /\ inserting' = [inserting EXCEPT ![id] = Null]
  /\ UNCHANGED <<lastInsert, legal_seq, vendor_profiles, accounts, auth_users,
                 stripeSessions, emails, now, ui, toast, response, outside>>

\* The signature update of processSignature arriving at the store from the
\* authenticated uid, for any row id.
UpdateSignature(uid, id, side, name) ==
  /\ Exists(id)
  /\ now < MaxTime
  /\ LET upd == SignatureUpdate(uid, id, side, now, name)
     IN /\ invoices' = upd.invoices
        /\ legal_seq' = upd.legal_seq
  /\ now' = now + 1
  /\ UNCHANGED <<inserts, vendor_profiles, accounts, auth_users, stripeSessions,
                 emails, ui, toast, response, outside>>

InitStore ==
  /\ invoices = [i \in InvoiceIds |-> Null]
  /\ inserting = [i \in InvoiceIds |-> Null]
  /\ lastInsert = NoInsert
  /\ legal_seq = 0
  /\ vendor_profiles =
       [u \in {Vendor} |-> [ business_name |-> BusinessName,
                             stripe_connect_id |-> Null ]]
  /\ accounts = [a \in {Account} |-> [ charges_enabled |-> FALSE,
                                       payouts_enabled |-> FALSE ]]
  /\ auth_users = [u \in {Client} |-> Some("c1@mail")]
  /\ stripeSessions = [i \in InvoiceIds |-> 0]
  /\ emails = [i \in InvoiceIds |-> 0]
  /\ now = 1
  /\ ui = [s \in Sessions |-> InitialUi]
  /\ toast = [title |-> "none", description |-> "none"]
  /\ response = NoResponse
  /\ env = NoEnv
  /\ stripeCalls = <<>>
  /\ windows = NoWindows
  /\ user_roles = NoRoles
  /\ guard = NoGuard

Identities == {Vendor, Client, Stranger}

NextStore ==
  \/ \E uid \in Identities \cup {Anon}, id \in InvoiceIds, new \in NewInvoices :
       InsertInvoice(uid, id, new)
  \/ \E id \in InvoiceIds : CommitInsert(id)
  \/ \E uid \in Identities, id \in InvoiceIds, side \in {"vendor", "client"} :
       UpdateSignature(uid, id, side, <<"Z">>)

SpecStore == InitStore /\ [][NextStore]_vars

\* ------------------------------------- send-invoice-email as an endpoint
\* Notifications handed to the mail provider per invoice and behaviour.
MaxEmails == 3

\* A request { invoiceId } to send-invoice-email, from any caller.
serve_sendInvoiceEmail(id) ==
  /\ emails[id] < MaxEmails
  /\ \E out \in sendInvoiceEmail(id) :
       /\ emails' = [emails EXCEPT ![id] = IF out.sent THEN @ + 1 ELSE @]
       /\ response' = [ function |-> "send-invoice-email", invoiceId |-> id,
                        error |-> out.error, data |-> Null, status |-> out.status ]
  /\ UNCHANGED <<invoices, inserts, legal_seq, vendor_profiles, accounts, auth_users,
                 stripeSessions, now, ui, toast, outside>>

\* An invoice for one client and possibly one for another; each client has
\* an email address or none.
InitEmail ==
  /\ \E second \in BOOLEAN :
       invoices = [i \in InvoiceIds |->
                     IF i = "inv1" THEN Some(DraftRow(Vendor, Client, 1, FALSE))
                     ELSE IF second THEN Some(DraftRow(Vendor, Stranger, 2, FALSE))
                     ELSE Null]
  /\ inserting = [i \in InvoiceIds |-> Null]
  /\ lastInsert = NoInsert
  /\ legal_seq = 2
  /\ vendor_profiles =
       [u \in {Vendor} |-> [ business_name |-> BusinessName,
                             stripe_connect_id |-> Null ]]
  /\ accounts = [a \in {Account} |-> [ charges_enabled |-> FALSE,
                                       payouts_enabled |-> FALSE ]]
  /\ auth_users \in [{Client, Stranger} -> {Null, Some("mail")}]
  /\ stripeSessions = [i \in InvoiceIds |-> 0]
  /\ emails = [i \in InvoiceIds |-> 0]
  /\ now = 1
  /\ ui = [s \in Sessions |-> InitialUi]
  /\ toast = [title |-> "none", description |-> "none"]
  /\ response = NoResponse
  /\ env = NoEnv
  /\ stripeCalls = <<>>
  /\ windows = NoWindows
  /\ user_roles = NoRoles
  /\ guard = NoGuard

NextEmail == \E id \in InvoiceIds : serve_sendInvoiceEmail(id)

SpecEmail == InitEmail /\ [][NextEmail]_vars

\* ------------------------------------------------ the client's pay now
\* Pay-now clicks handled per behaviour.
MaxPayNow == 3

\* Faulty variant of Truthy: only null is taken as absent.
Truthy_notNull(url) == url # Null

\* A JavaScript string (or null) in a condition: null and '' are falsy.
Truthy(url) == url # Null /\ url[1] # <<>>

\* The "Pay Now" button of a listed invoice is rendered.
PayNowShown(s, i) ==
  /\ ~ui[s].loading
  /\ userRole(s) = "client"
  /\ ui[s].invoices[i] # Null
  /\ ui[s].invoices[i][1].status = "sent"

\* window.open(url, '_blank') and the toast that follows it.
OpenPaymentPage(s, url) ==
  /\ windows' = [windows EXCEPT !.opened = Append(@, url)]
  /\ Toast(s, "Opening payment page",
           "You will be redirected to Stripe to complete your payment")

\* handlePayNow(invoice) up to its await: the listed invoice's hosted URL is
\* opened if there is one, otherwise the URL is asked from the store.
handlePayNow(s, i) ==
  /\ PayNowShown(s, i)
  /\ ui[s].pc = "idle"
  /\ Len(windows.opened) + windows.lookups < MaxPayNow
  /\ LET invoice == ui[s].invoices[i][1] IN
     IF Truthy(invoice.stripe_hosted_invoice_url)
     THEN /\ OpenPaymentPage(s, invoice.stripe_hosted_invoice_url[1])
          /\ UNCHANGED ui
     ELSE /\ SetUi(s, [ui[s] EXCEPT !.pc = "paynow", !.payNow = Some(i)])
          /\ UNCHANGED <<windows, toast>>
  /\ UNCHANGED <<invoices, inserts, legal_seq, vendor_profiles, accounts, auth_users,
                 stripeSessions, emails, now, response, env, stripeCalls, guarding>>

\* The store answers the lookup of stripe_hosted_invoice_url: an error is
\* thrown to the catch block; a URL is opened; without one the vendor is to
\* be contacted.
handlePayNow_lookup(s) ==
  /\ ui[s].pc = "paynow"
  /\ LET id == ui[s].payNow[1] IN
     \E error \in {Null, Some("lookup error")} :
       /\ error = Null => Exists(id)
       /\ response' = [ function |-> "invoices.select", invoiceId |-> id,
                        error |-> error,
                        data |-> IF error = Null
                                 THEN Row(id).stripe_hosted_invoice_url
                                 ELSE Null ]
       /\ IF error # Null
          THEN /\ Toast(s, "Error", "Failed to open payment page. Please try again.")
               /\ windows' = [windows EXCEPT !.lookups = @ + 1]
          ELSE IF Truthy(Row(id).stripe_hosted_invoice_url)
          THEN /\ windows' = [ opened |-> Append(windows.opened,
                                                 Row(id).stripe_hosted_invoice_url[1]),
                               lookups |-> windows.lookups + 1 ]
               /\ Toast(s, "Opening payment page",
                        "You will be redirected to Stripe to complete your payment")
          ELSE /\ Toast(s, "Error",
                        "Payment URL not available. Please contact the vendor.")
               /\ windows' = [windows EXCEPT !.lookups = @ + 1]
  /\ SetUi(s, [ui[s] EXCEPT !.pc = "idle", !.payNow = Null])
  /\ UNCHANGED <<invoices, inserts, legal_seq, vendor_profiles, accounts, auth_users,
                 stripeSessions, emails, now, env, stripeCalls, guarding>>

\* stripe-create-invoice invoked for an invoice by its vendor's sign, seen
\* from the client's side: the store's row gets its hosted URL.
stripeCreateInvoice(id) ==
  /\ Exists(id)
  /\ Row(id).vendor_signed_at # Null
  /\ vendor_profiles[Row(id).vendor_id].stripe_connect_id # Null
  /\ \E out \in createOrGetHostedSession(id,
                  vendor_profiles[Row(id).vendor_id].stripe_connect_id[1]) :
       /\ out.created = 1
       /\ invoices' = [invoices EXCEPT ![id] = Some(out.row)]
       /\ stripeSessions' = [stripeSessions EXCEPT ![id] = @ + out.created]
  /\ UNCHANGED <<inserts, legal_seq, vendor_profiles, accounts, auth_users, emails,
                 now, ui, toast, response, outside>>

\* An invoice of the client that its vendor has signed, as the client's tab
\* can find it: still a draft; sent, with its hosted URL; or with status
\* 'sent' and no hosted URL, or an empty one (the INSERT policy lets a party
\* insert such a row).
SignedRow(id, status, url) ==
  [ DraftRow(Vendor, Client, 1, FALSE) EXCEPT
      !.status = status,
      !.vendor_signed_at = Some(0),
      !.vendor_signature_url = Some(BusinessName),
      !.vendor_side_writer = Some(Vendor),
      !.stripe_hosted_invoice_url = url,
      !.stripe_pdf_url = IF Truthy(url) THEN Some(PdfUrl(id, 1)) ELSE Null ]

SignedRows(id) ==
  {SignedRow(id, "draft", Null)} \cup
  { SignedRow(id, "sent", url) : url \in {Null, Some(<<>>), Some(HostedUrl(id, 1))} }

InitClient ==
  /\ \E first \in SignedRows("inv1"),
        second \in {Null} \cup {Some(row) : row \in SignedRows("inv2")} :
       invoices = [i \in InvoiceIds |-> IF i = "inv1" THEN Some(first) ELSE second]
  /\ stripeSessions =
       [i \in InvoiceIds |->
          IF Exists(i) /\ Truthy(Row(i).stripe_hosted_invoice_url) THEN 1 ELSE 0]
  /\ inserting = [i \in InvoiceIds |-> Null]
  /\ lastInsert = NoInsert
  /\ legal_seq = 1
  /\ vendor_profiles =
       [u \in {Vendor} |-> [ business_name |-> BusinessName,
                             stripe_connect_id |-> Some(Account) ]]
  /\ accounts = [a \in {Account} |-> [ charges_enabled |-> TRUE,
                                       payouts_enabled |-> TRUE ]]
  /\ auth_users = [u \in {Client} |-> Some("c1@mail")]
  /\ emails = [i \in InvoiceIds |-> 0]
  /\ now = 1
  /\ ui = [s \in ClientSessions |-> InitialUi]
  /\ toast = [title |-> "none", description |-> "none"]
  /\ response = NoResponse
  /\ env = NoEnv
  /\ stripeCalls = <<>>
  /\ windows = NoWindows
  /\ user_roles = NoRoles
  /\ guard = NoGuard

NextClient ==
  \/ \E s \in ClientSessions : fetchInvoices(s)
  \/ \E s \in ClientSessions, i \in InvoiceIds : handlePayNow(s, i)
  \/ \E s \in ClientSessions : handlePayNow_lookup(s)
  \/ \E i \in InvoiceIds : stripeCreateInvoice(i)

SpecClient == InitClient /\ [][NextClient]_vars

\* ------------------------------------------- the client's acknowledgment
\* handleSignInvoice(invoice) in a client's tab, for a listed invoice: the
\* vendor's prefill is skipped, the invoice is selected and the dialog
\* opens. The page renders no button that calls it for a client; it is the
\* only way into processSignature's client branch.
handleSignInvoice_client(s, i) ==
  /\ ~ui[s].loading
  /\ userRole(s) = "client"
  /\ ui[s].invoices[i] # Null
  /\ ~ui[s].signatureModal
  /\ ~ui[s].processing
  /\ SetUi(s, [ui[s] EXCEPT !.selectedInvoice = Some(i), !.signatureModal = TRUE])
  /\ UNCHANGED <<store, toast>>

\* An invoice of the client: a draft, or signed by its vendor and sent.
InitAcknowledge ==
  /\ \E row \in {DraftRow(Vendor, Client, 1, FALSE),
                 SignedRow("inv1", "sent", Some(HostedUrl("inv1", 1)))} :
       /\ invoices = [i \in InvoiceIds |-> IF i = "inv1" THEN Some(row) ELSE Null]
       /\ stripeSessions = [i \in InvoiceIds |->
                              IF i = "inv1" /\ row.status = "sent" THEN 1 ELSE 0]
  /\ inserting = [i \in InvoiceIds |-> Null]
  /\ lastInsert = NoInsert
  /\ legal_seq = 1
  /\ vendor_profiles =
       [u \in {Vendor} |-> [ business_name |-> BusinessName,
                             stripe_connect_id |-> Some(Account) ]]
  /\ accounts = [a \in {Account} |-> [ charges_enabled |-> TRUE,
                                       payouts_enabled |-> TRUE ]]
  /\ auth_users = [u \in {Client} |-> Some("c1@mail")]
  /\ emails = [i \in InvoiceIds |-> 0]
  /\ now = 1
  /\ ui = [s \in ClientSessions |-> InitialUi]
  /\ toast = [title |-> "none", description |-> "none"]
  /\ response = NoResponse
  /\ env = NoEnv
  /\ stripeCalls = <<>>
  /\ windows = NoWindows
  /\ user_roles = NoRoles
  /\ guard = NoGuard

NextAcknowledge ==
  \/ \E s \in ClientSessions : fetchInvoices(s)
  \/ \E s \in ClientSessions, i \in InvoiceIds : handleSignInvoice_client(s, i)
  \/ \E s \in ClientSessions, name \in Names : setSignature(s, name)
  \/ \E s \in ClientSessions : setSignatureModal(s)
  \/ \E s \in ClientSessions : processSignature(s)
  \/ \E s \in ClientSessions : processSignature_update(s)

SpecAcknowledge == InitAcknowledge /\ [][NextAcknowledge]_vars

\* ------------------------------------------------ webhook reconciliation
\* The processor's events about an invoice's payment session.
Events == {"sent", "paid", "payment_failed"}

\* How far a status is along draft -> sent -> paid; a failed payment can be
\* tried again, so 'payment_failed' is as far as 'sent'.
Rank(status) ==
  CASE status = "draft" -> 0
    [] status = "sent" -> 1
    [] status = "payment_failed" -> 1
    [] status = "paid" -> 2

\* Faulty variant of reconcile: the event's status is written as it comes.
reconcile_lastWins(row, event) == [row EXCEPT !.status = event]

\* The reconciliation of an inbound processor event: the status is updated
\* only as a forward transition, and an event that would not move the
\* invoice forward leaves the row as it is.
reconcile(row, event) ==
  IF row.status = "paid" \/ Rank(event) < Rank(row.status)
  THEN row
  ELSE [row EXCEPT !.status = event]

\* A webhook delivery for an invoice that has a payment session at the
\* processor: at least once, in any order. The delivery is answered without
\* an error.
webhook(id, event) ==
  /\ Exists(id)
  /\ stripeSessions[id] > 0
  /\ invoices' = [invoices EXCEPT ![id] = Some(reconcile(Row(id), event))]
  /\ response' = [ function |-> "stripe-webhook", invoiceId |-> id,
                   error |-> Null, data |-> Some(event) ]
  /\ UNCHANGED <<inserts, legal_seq, vendor_profiles, accounts, auth_users,
                 stripeSessions, emails, now, ui, toast, outside>>

\* One vendor tab, for the lifecycle of an invoice up to its payment.
LifecycleSessions == {"tabA"}

InitLifecycle ==
  /\ \E clientSigned \in BOOLEAN :
       invoices = [i \in InvoiceIds |->
                     IF i = "inv1"
                     THEN Some(DraftRow(Vendor, Client, 1, clientSigned))
                     ELSE Null]
  /\ inserting = [i \in InvoiceIds |-> Null]
  /\ lastInsert = NoInsert
  /\ legal_seq = 1
  /\ \E connect \in {Null, Some(Account)} :
       /\ vendor_profiles =
            [u \in {Vendor} |-> [ business_name |-> BusinessName,
                                  stripe_connect_id |-> connect ]]
       /\ accounts = [a \in {Account} |-> [ charges_enabled |-> connect # Null,
                                            payouts_enabled |-> connect # Null ]]
  /\ auth_users = [u \in {Client} |-> Some("c1@mail")]
  /\ stripeSessions = [i \in InvoiceIds |-> 0]
  /\ emails = [i \in InvoiceIds |-> 0]
  /\ now = 1
  /\ ui = [s \in LifecycleSessions |-> InitialUi]
  /\ toast = [title |-> "none", description |-> "none"]
  /\ response = NoResponse
  /\ env = NoEnv
  /\ stripeCalls = <<>>
  /\ windows = NoWindows
  /\ user_roles = NoRoles
  /\ guard = NoGuard

NextLifecycle ==
  \/ \E s \in LifecycleSessions : fetchInvoices(s)
  \/ \E s \in LifecycleSessions, i \in InvoiceIds : handleSignInvoice(s, i)
  \/ \E s \in LifecycleSessions, name \in Names : setSignature(s, name)
  \/ \E s \in LifecycleSessions : setSignatureModal(s)
  \/ \E s \in LifecycleSessions : processSignature(s)
  \/ \E s \in LifecycleSessions : processSignature_update(s)
  \/ \E s \in LifecycleSessions : processSignature_profile(s)
  \/ \E s \in LifecycleSessions : processSignature_stripe(s)
  \/ \E s \in LifecycleSessions : processSignature_email(s)
  \/ \E i \in InvoiceIds, event \in Events : webhook(i, event)

SpecLifecycle == InitLifecycle /\ [][NextLifecycle]_vars

\* ---------------------------------------------- stripe-connect-onboarding
\* Strings of this function are sequences of characters.
https == <<"h", "t", "t", "p", "s", ":", "/", "/">>
http == <<"h", "t", "t", "p", ":", "/", "/">>

\* String.prototype.startsWith
startsWith(str, searchString) ==
  /\ Len(str) >= Len(searchString)
  /\ SubSeq(str, 1, Len(searchString)) = searchString

\* '/business-information?stripe_refresh=true' and
\* '/business-information?stripe_complete=true', shortened.
RefreshPath == <<"/", "r">>
CompletePath == <<"/", "c">>

\* FRONTEND_URL: not set (Deno.env.get(...) || ''), or the site's address.
FrontendUrls == {<<>>, https \o <<"f">>}

\* refreshUrl and returnUrl of a request body, each left out or a string:
\* both left out, both http, both https, and one of each.
RequestUrls ==
  { <<Null, Null>>,
    <<Some(http \o <<"a">>), Some(http \o <<"b">>)>>,
    <<Some(https \o <<"a">>), Some(https \o <<"b">>)>>,
    <<Some(https \o <<"a">>), Some(http \o <<"b">>)>> }

\* ensureHttps(url, fallbackPath), with the frontendUrl it closes over.
ensureHttps(frontendUrl, url, fallbackPath) ==
  IF url # Null /\ url[1] # <<>> /\ startsWith(url[1], https) THEN url[1]
  ELSE IF frontendUrl # <<>> THEN frontendUrl \o fallbackPath
  ELSE IF url # Null /\ url[1] # <<>> THEN url[1]
  ELSE fallbackPath

\* The vendors that call the function, and the account ids the processor
\* hands out.
OtherVendor == "v2"
Vendors == {Vendor, OtherVendor}
AccountOrder == <<"acct1", "acct2">>
AccountIds == {AccountOrder[k] : k \in 1..Len(AccountOrder)}

Actions == {"create", "refresh", "check-status", "create-login-link"}

\* The requests tried: the bearer token's user (Anon: no valid token), the
\* action (also one that is none of the four), an account id or none, and
\* the two URLs.
Requests ==
  { [ user |-> user, action |-> action, accountId |-> accountId,
      refreshUrl |-> urls[1], returnUrl |-> urls[2] ] :
      user \in Vendors \cup {Anon},
      action \in Actions \cup {"delete"},
      accountId \in {Null} \cup {Some(a) : a \in AccountIds},
      urls \in RequestUrls }

\* const safeRefreshUrl / safeReturnUrl
safeRefreshUrl(req) == ensureHttps(env.FRONTEND_URL, req.refreshUrl, RefreshPath)
safeReturnUrl(req) == ensureHttps(env.FRONTEND_URL, req.returnUrl, CompletePath)

\* A call to the processor as the function makes it.
StripeCall(op, account, refresh_url, return_url) ==
  [ op |-> op, account |-> account, refresh_url |-> refresh_url,
    return_url |-> return_url ]

\* stripe.accountLinks.create({ account, refresh_url, return_url, ... })
accountLinksCreate(account, req) ==
  StripeCall("accountLinks.create", account,
             Some(safeRefreshUrl(req)), Some(safeReturnUrl(req)))

\* The account id names an account of the processor.
AccountKnown(accountId) == accountId # Null /\ accounts[accountId[1]] # Null

\* The function's answer: a Response with the status and the JSON body.
Respond(req, status, error, data) ==
  response' = [ function |-> "stripe-connect-onboarding", request |-> req,
                status |-> status, error |-> error, data |-> data ]

\* The catch block: { error: clientMessage } with status 400.
Failed(req, message) == Respond(req, 400, Some(message), Null)

\* Faulty variant of Authenticated: the test of getUser's answer is missing.
Authenticated_any(req) == TRUE

\* getUser(token) gave a user and no error.
Authenticated(req) == req.user # Anon

\* getUser(token) gives an error or no user: 'Unauthorized' is thrown before
\* the body's action is looked at.
serve_unauthorized(req) ==
  /\ ~Authenticated(req)
  /\ stripeCalls' = <<>>
  /\ Failed(req, "Unauthorized")
  /\ UNCHANGED <<invoices, inserts, legal_seq, vendor_profiles, accounts, auth_users,
                 stripeSessions, emails, now, ui, toast, env, windows, guarding>>

\* action 'create': an express account is created at the processor, its id
\* and the start time are written to the caller's vendor profile, and an
\* onboarding link is created. Either processor call can throw.
serve_create(req) ==
  /\ Authenticated(req)
  /\ req.action = "create"
  /\ \/ /\ stripeCalls' = <<StripeCall("accounts.create", Null, Null, Null)>>
        /\ Failed(req, "processor error")
        /\ UNCHANGED <<accounts, vendor_profiles>>
     \/ /\ \E a \in AccountIds : accounts[a] = Null
        /\ LET id == AccountOrder[CHOOSE k \in 1..Len(AccountOrder) :
                                     /\ accounts[AccountOrder[k]] = Null
                                     /\ \A j \in 1..(k - 1) :
                                          accounts[AccountOrder[j]] # Null]
           IN /\ accounts' = [accounts EXCEPT ![id] =
                   Some([ vendor_id |-> req.user, charges_enabled |-> FALSE,
                          payouts_enabled |-> FALSE, details_submitted |-> FALSE ])]
              /\ vendor_profiles' = [vendor_profiles EXCEPT ![req.user] =
                   [@ EXCEPT !.stripe_connect_id = Some(id),
                             !.stripe_onboarding_started_at = Some(now)]]
              /\ stripeCalls' = <<StripeCall("accounts.create", Null, Null, Null),
                                  accountLinksCreate(Some(id), req)>>
              /\ \/ Respond(req, 200, Null, Some([url |-> <<"link", id>>, accountId |-> id]))
                 \/ Failed(req, "processor error")
  /\ UNCHANGED <<invoices, inserts, legal_seq, auth_users, stripeSessions, emails,
                 now, ui, toast, env, windows, guarding>>

\* action 'refresh': an onboarding link for the request's accountId.
serve_refresh(req) ==
  /\ Authenticated(req)
  /\ req.action = "refresh"
  /\ stripeCalls' = <<accountLinksCreate(req.accountId, req)>>
  /\ \/ /\ AccountKnown(req.accountId)
        /\ Respond(req, 200, Null, Some([url |-> <<"link", req.accountId[1]>>]))
     \/ Failed(req, "processor error")
  /\ UNCHANGED <<invoices, inserts, legal_seq, vendor_profiles, accounts, auth_users,
                 stripeSessions, emails, now, ui, toast, env, windows, guarding>>

\* action 'check-status': the request's accountId is retrieved and its flags
\* are written to the caller's vendor profile and returned.
serve_checkStatus(req) ==
  /\ Authenticated(req)
  /\ req.action = "check-status"
  /\ stripeCalls' = <<StripeCall("accounts.retrieve", req.accountId, Null, Null)>>
  /\ \/ /\ AccountKnown(req.accountId)
        /\ LET account == accounts[req.accountId[1]][1]
           IN /\ vendor_profiles' = [vendor_profiles EXCEPT ![req.user] =
                   [@ EXCEPT
                      !.stripe_charges_enabled = account.charges_enabled,
                      !.stripe_payouts_enabled = account.payouts_enabled,
                      !.stripe_onboarding_complete = account.details_submitted,
                      !.stripe_onboarding_completed_at =
                         IF account.details_submitted THEN Some(now) ELSE Null]]
              /\ Respond(req, 200, Null,
                         Some([ chargesEnabled |-> account.charges_enabled,
                                payoutsEnabled |-> account.payouts_enabled,
                                detailsSubmitted |-> account.details_submitted ]))
     \/ /\ Failed(req, "processor error")
        /\ UNCHANGED vendor_profiles
  /\ UNCHANGED <<invoices, inserts, legal_seq, accounts, auth_users, stripeSessions,
                 emails, now, ui, toast, env, windows, guarding>>

\* action 'create-login-link': a dashboard login link for the request's
\* accountId.
serve_createLoginLink(req) ==
  /\ Authenticated(req)
  /\ req.action = "create-login-link"
  /\ stripeCalls' = <<StripeCall("accounts.createLoginLink", req.accountId, Null, Null)>>
  /\ \/ /\ AccountKnown(req.accountId)
        /\ Respond(req, 200, Null, Some([url |-> <<"login", req.accountId[1]>>]))
     \/ Failed(req, "processor error")
  /\ UNCHANGED <<invoices, inserts, legal_seq, vendor_profiles, accounts, auth_users,
                 stripeSessions, emails, now, ui, toast, env, windows, guarding>>

\* Any other action: throw new Error('Invalid action').
serve_invalidAction(req) ==
  /\ Authenticated(req)
  /\ req.action \notin Actions
  /\ stripeCalls' = <<>>
  /\ Failed(req, "Invalid action")
  /\ UNCHANGED <<invoices, inserts, legal_seq, vendor_profiles, accounts, auth_users,
                 stripeSessions, emails, now, ui, toast, env, windows, guarding>>

\* The vendor follows the account link and completes the onboarding at the
\* processor: the account's flags are set there.
accountOnboarded(a) ==
  /\ accounts[a] # Null
  /\ ~accounts[a][1].details_submitted
  /\ accounts' = [accounts EXCEPT ![a] =
       Some([@[1] EXCEPT !.charges_enabled = TRUE, !.payouts_enabled = TRUE,
                         !.details_submitted = TRUE])]
  /\ UNCHANGED <<invoices, inserts, legal_seq, vendor_profiles, auth_users,
                 stripeSessions, emails, now, ui, toast, response, env, stripeCalls,
                 windows, guarding>>

\* Vendor profiles as the migration's defaults leave them, no account at the
\* processor, FRONTEND_URL set or not.
InitOnboarding ==
  /\ invoices = [i \in InvoiceIds |-> Null]
  /\ inserting = [i \in InvoiceIds |-> Null]
  /\ lastInsert = NoInsert
  /\ legal_seq = 0
  /\ vendor_profiles =
       [u \in Vendors |-> [ business_name |-> BusinessName,
                            stripe_connect_id |-> Null,
                            stripe_onboarding_complete |-> FALSE,
                            stripe_charges_enabled |-> FALSE,
                            stripe_payouts_enabled |-> FALSE,
                            stripe_onboarding_started_at |-> Null,
                            stripe_onboarding_completed_at |-> Null ]]
  /\ accounts = [a \in AccountIds |-> Null]
  /\ auth_users = [u \in {Client} |-> Some("c1@mail")]
  /\ stripeSessions = [i \in InvoiceIds |-> 0]
  /\ emails = [i \in InvoiceIds |-> 0]
  /\ now = 1
  /\ ui = [s \in Sessions |-> InitialUi]
  /\ toast = [title |-> "none", description |-> "none"]
  /\ response = NoResponse
  /\ \E frontendUrl \in FrontendUrls : env = [FRONTEND_URL |-> frontendUrl]
  /\ stripeCalls = <<>>
  /\ windows = NoWindows
  /\ user_roles = NoRoles
  /\ guard = NoGuard

NextOnboarding ==
  \/ \E req \in Requests : serve_unauthorized(req)
  \/ \E req \in Requests : serve_create(req)
  \/ \E req \in Requests : serve_refresh(req)
  \/ \E req \in Requests : serve_checkStatus(req)
  \/ \E req \in Requests : serve_createLoginLink(req)
  \/ \E req \in Requests : serve_invalidAction(req)
  \/ \E a \in AccountIds : accountOnboarded(a)

SpecOnboarding == InitOnboarding /\ [][NextOnboarding]_vars

\* ------------------------------------------- the numbering trigger alone
\* The rows the trigger function is given (NEW): each of the four columns it
\* looks at left null or supplied.
TriggerRows ==
  { NewInvoice(Vendor, Client, legal, number, issued, taxPoint, FALSE) :
      legal \in {Null, Some(1), Some(7)},
      number \in {Null, Some(1), Some(9)},
      issued \in {Null, Some(0)},
      taxPoint \in {Null, Some(0)} }

\* set_invoice_number runs on the incoming row of id (kept in `inserting`)
\* and returns the row that is stored.
set_invoice_number_fires(id) ==
  /\ inserting[id] # Null
  /\ invoices[id] = Null
  /\ LET fired == set_invoice_number(inserting[id][1], legal_seq, now)
     IN /\ invoices' = [invoices EXCEPT ![id] = Some(fired.row)]
        /\ legal_seq' = fired.seq
  /\ UNCHANGED <<inserts, vendor_profiles, accounts, auth_users, stripeSessions,
                 emails, now, ui, toast, response, outside>>

\* An incoming row for each id, any state of the sequence, any time.
InitTrigger ==
  /\ invoices = [i \in InvoiceIds |-> Null]
  /\ \E first \in TriggerRows, second \in TriggerRows :
       inserting = [i \in InvoiceIds |->
                      IF i = "inv1" THEN Some(first) ELSE Some(second)]
  /\ lastInsert = NoInsert
  /\ legal_seq \in 0..2
  /\ vendor_profiles =
       [u \in {Vendor} |-> [ business_name |-> BusinessName,
                             stripe_connect_id |-> Null ]]
  /\ accounts = [a \in {Account} |-> [ charges_enabled |-> FALSE,
                                       payouts_enabled |-> FALSE ]]
  /\ auth_users = [u \in {Client} |-> Some("c1@mail")]
  /\ stripeSessions = [i \in InvoiceIds |-> 0]
  /\ emails = [i \in InvoiceIds |-> 0]
  /\ now \in 1..2
  /\ ui = [s \in Sessions |-> InitialUi]
  /\ toast = [title |-> "none", description |-> "none"]
  /\ response = NoResponse
  /\ env = NoEnv
  /\ stripeCalls = <<>>
  /\ windows = NoWindows
  /\ user_roles = NoRoles
  /\ guard = NoGuard

NextTrigger == \E id \in InvoiceIds : set_invoice_number_fires(id)

SpecTrigger == InitTrigger /\ [][NextTrigger]_vars

\* ---------------------------------------------------------------- RoleGuard
Roles == {"admin", "client", "vendor"}

\* allowedUserTypes of a guarded route, in the order the loop checks them.
AllowedUserTypes == {<<"client">>, <<"vendor">>, <<"client", "vendor">>}

\* supabase.rpc('has_role', { _user_id, _role }) when it answers with data.
has_role(user_id, role) == role \in user_roles[user_id]

\* The component as it is mounted: useAuth() is loading, useState(null) and
\* useState(true); no role check is running.
InitialGuard(allowed) ==
  [ allowedUserTypes |-> allowed, user |-> Null, loading |-> TRUE,
    userType |-> Null, checkingRole |-> TRUE, pc |-> "idle", roleIndex |-> 0 ]

\* The effect of [user, loading, allowedUserTypes] for the auth context
\* (user, not loading): with a user checkUserRole starts and awaits the admin
\* check; without one the role check is over.
Effect(g, user) ==
  IF user # Null
  THEN [g EXCEPT !.user = user, !.loading = FALSE, !.pc = "admin", !.roleIndex = 0]
  ELSE [g EXCEPT !.user = user, !.loading = FALSE, !.checkingRole = FALSE]

\* The auth context has loaded: a user is signed in, or nobody is.
authLoaded(user) ==
  /\ guard.pc = "idle"
  /\ guard.loading
  /\ guard' = Effect(guard, user)
  /\ UNCHANGED <<unguarded, toast, user_roles>>

\* The user signs out while no role check is running.
signedOut ==
  /\ guard.pc = "done"
  /\ guard.user # Null
  /\ guard' = Effect([guard EXCEPT !.pc = "idle"], Null)
  /\ UNCHANGED <<unguarded, toast, user_roles>>

\* A user signs in on the mounted guard.
signedIn(user) ==
  /\ guard.pc = "idle"
  /\ ~guard.loading
  /\ guard.user = Null
  /\ guard' = Effect(guard, Some(user))
  /\ UNCHANGED <<unguarded, toast, user_roles>>

\* No matching role found: setUserType(null), the toast, and finally
\* setCheckingRole(false).
NoMatchingRole ==
  /\ guard' = [guard EXCEPT !.userType = Null, !.checkingRole = FALSE,
                            !.pc = "done"]
  /\ toast' = [title |-> "error", description |-> "Failed to verify user permissions"]

\* The loop over allowedUserTypes from index k on: the next has_role call is
\* awaited, or the loop is over.
CheckFrom(k) ==
  IF k <= Len(guard.allowedUserTypes)
  THEN /\ guard' = [guard EXCEPT !.pc = "role", !.roleIndex = k]
       /\ UNCHANGED toast
  ELSE NoMatchingRole

\* has_role(admin) answers: an error is logged and the allowed roles are
\* checked; an admin is let in; otherwise the allowed roles are checked.
checkUserRole_admin ==
  /\ guard.pc = "admin"
  /\ \E adminError \in BOOLEAN :
       IF ~adminError /\ has_role(guard.user[1], "admin")
       THEN /\ guard' = [guard EXCEPT !.userType = Some("admin"),
                                      !.checkingRole = FALSE, !.pc = "done"]
            /\ UNCHANGED toast
       ELSE CheckFrom(1)
  /\ UNCHANGED <<unguarded, user_roles>>

\* has_role(roleType) answers for the allowed role at roleIndex: an error is
\* logged and the loop continues; data === true ends the check with that
\* user type; otherwise the loop continues.
checkUserRole_role ==
  /\ guard.pc = "role"
  /\ LET roleType == guard.allowedUserTypes[guard.roleIndex] IN
     \E error \in BOOLEAN :
       IF ~error /\ has_role(guard.user[1], roleType)
       THEN /\ guard' = [guard EXCEPT !.userType = Some(roleType),
                                      !.checkingRole = FALSE, !.pc = "done"]
            /\ UNCHANGED toast
       ELSE CheckFrom(guard.roleIndex + 1)
  /\ UNCHANGED <<unguarded, user_roles>>

\* allowedUserTypes.includes(userType)
includes(allowed, userType) == \E k \in 1..Len(allowed) : allowed[k] = userType

\* What the component renders: the spinner, a <Navigate> to a route, or its
\* children.
RoleGuard ==
  IF guard.loading \/ guard.checkingRole THEN "spinner"
  ELSE IF guard.user = Null THEN "/auth"
  ELSE IF guard.userType = Some("admin") THEN "children"
  ELSE IF guard.userType # Null
          /\ ~includes(guard.allowedUserTypes, guard.userType[1]) THEN "/"
  ELSE "children"

InitGuard ==
  /\ invoices = [i \in InvoiceIds |-> Null]
  /\ inserting = [i \in InvoiceIds |-> Null]
  /\ lastInsert = NoInsert
  /\ legal_seq = 0
  /\ vendor_profiles =
       [u \in {Vendor} |-> [ business_name |-> BusinessName,
                             stripe_connect_id |-> Null ]]
  /\ accounts = [a \in {Account} |-> [ charges_enabled |-> FALSE,
                                       payouts_enabled |-> FALSE ]]
  /\ auth_users = [u \in {Client} |-> Some("c1@mail")]
  /\ stripeSessions = [i \in InvoiceIds |-> 0]
  /\ emails = [i \in InvoiceIds |-> 0]
  /\ now = 1
  /\ ui = [s \in Sessions |-> InitialUi]
  /\ toast = [title |-> "none", description |-> "none"]
  /\ response = NoResponse
  /\ env = NoEnv
  /\ stripeCalls = <<>>
  /\ windows = NoWindows
  /\ user_roles \in [{Vendor} -> SUBSET Roles]
  /\ \E allowed \in AllowedUserTypes : guard = InitialGuard(allowed)

NextGuard ==
  \/ \E user \in {Null, Some(Vendor)} : authLoaded(user)
  \/ signedOut
  \/ signedIn(Vendor)
  \/ checkUserRole_admin
  \/ checkUserRole_role

SpecGuard == InitGuard /\ [][NextGuard]_vars

\* ------------------------------------------------------------------ claims
NameMatches(provided, onFile) == toLowerCase(provided) = toLowerCase(onFile)

\* C1: a vendor sign with a name that does not equal the vendor's on-file
\* business_name, ignoring case, leaves vendor_signed_at null: every recorded
\* vendor signature carries a name that matches the business name on file.
C1_MismatchLeavesUnsigned ==
  \A i \in InvoiceIds :
    Exists(i) /\ Row(i).vendor_signed_at # Null =>
      NameMatches(Row(i).vendor_signature_url[1],
                  vendor_profiles[Row(i).vendor_id].business_name)

\* C2: at most one payment session is created at the processor for an
\* invoice, and every answer of the bridge that carries a hosted URL carries
\* the URL of that one session.
C2_OneSessionOneUrl ==
  /\ \A i \in InvoiceIds : stripeSessions[i] <= 1
  /\ response.function = "stripe-create-invoice" /\ response.data # Null =>
       /\ response.data = Some(HostedUrl(response.invoiceId, 1))
       /\ response.data = Row(response.invoiceId).stripe_hosted_invoice_url

\* Both tabs signed the same invoice from their stale lists and both got the
\* bridge's answer.
C2_Witness ==
  /\ stripeSessions["inv1"] = 1
  /\ \A s \in Sessions : ui[s].pc = "email" /\ ui[s].selectedInvoice = Some("inv1")

AccountEnabled(acct) ==
  accounts[acct].charges_enabled /\ accounts[acct].payouts_enabled

\* C3: with charges or payouts disabled a vendor sign creates no payment
\* session, and a sign that the bridge refuses as 'setup required' is shown
\* to the vendor as "Stripe Setup Required", not as a generic error.
C3_SetupRequiredIsDistinct ==
  [][ /\ ~AccountEnabled(Account) => stripeSessions' = stripeSessions
      /\ \A s \in Sessions :
           StripeAnswered(s) /\ response'.error = Some(SetupRequired) =>
             toast'.title = "Stripe Setup Required" ]_vars

\* C4: when the payment-session call fails after the signature update has
\* committed, the invoice keeps vendor_signed_at and vendor_signature_url,
\* its status is not changed (and is 'sent' only if a session exists), and
\* the attempt sends no notification and reports no success.
C4_BridgeFailureKeepsSignature ==
  [][ \A s \in Sessions :
        StripeAnswered(s) /\ response'.error # Null =>
          LET before == Row(Selected(s))
              after == invoices'[Selected(s)][1]
          IN /\ after.vendor_signed_at # Null
             /\ after.vendor_signature_url # Null
             /\ after.status = before.status
             /\ stripeSessions'[Selected(s)] = 0 => after.status # "sent"
             /\ emails' = emails
             /\ ui'[s].pc = "idle"
             /\ toast'.title = "Error" ]_vars

C4_Witness ==
  /\ response.function = "stripe-create-invoice"
  /\ response.error = Some(UpstreamFailure)
  /\ toast.title = "Error"
  /\ Row("inv1").vendor_signed_at # Null
  /\ Row("inv1").status = "draft"

\* C5: a vendor sign reported as 'Invoice signed and sent to client' has
\* dispatched the invoice's notification exactly once.
C5_SuccessMeansOneNotification ==
  [][ \A s \in Sessions :
        ReportedSuccess(s) => emails'[Selected(s)] = 1 ]_vars

HeldIn(table, open, id) == IF table[id] # Null THEN table[id] ELSE open[id]
Held(id) == HeldIn(invoices, inserting, id)

\* C7: once an invoice's legal_invoice_number is non-null it never changes,
\* whatever update is made to the row and however often the trigger function
\* runs on it.
C7_LegalNumberNeverChanges ==
  [][ \A id \in InvoiceIds :
        LET before == Held(id)
            after == HeldIn(invoices', inserting', id)
        IN before # Null /\ before[1].legal_invoice_number # Null =>
             /\ after # Null
             /\ after[1].legal_invoice_number = before[1].legal_invoice_number ]_vars

\* An invoice the client created was later signed by its vendor: the row was
\* updated, and the trigger function ran on it again.
C7_Witness ==
  \E id \in InvoiceIds :
    /\ Exists(id)
    /\ Row(id).created_by = Client
    /\ Row(id).vendor_side_writer = Some(Vendor)
    /\ Row(id).legal_invoice_number # Null

\* C8: no two invoices share a legal_invoice_number.
C8_LegalNumbersUnique ==
  \A i, j \in InvoiceIds :
    i # j /\ Exists(i) /\ Exists(j) =>
      Row(i).legal_invoice_number # Row(j).legal_invoice_number

\* C9: an INSERT is accepted if and only if the authenticated user is the
\* row's vendor_id or client_id; a refused INSERT adds no invoice, and every
\* invoice was created by its vendor or its client.
C9_InsertOnlyByParty ==
  /\ [](lastInsert.uid # "none" =>
         (lastInsert.accepted <=>
            lastInsert.uid \in {lastInsert.vendor_id, lastInsert.client_id}))
  /\ [](\A id \in InvoiceIds :
          Held(id) # Null =>
            Held(id)[1].created_by \in {Held(id)[1].vendor_id, Held(id)[1].client_id})
  /\ [][ lastInsert' # lastInsert /\ ~lastInsert'.accepted =>
           invoices' = invoices /\ inserting' = inserting ]_vars

\* A stranger's INSERT of an invoice between the vendor and the client was
\* refused, after the client's own was accepted and committed.
C9_Witness ==
  /\ lastInsert = [ uid |-> Stranger, vendor_id |-> Vendor, client_id |-> Client,
                    accepted |-> FALSE ]
  /\ \E i \in InvoiceIds : Exists(i) /\ Row(i).created_by = Client

\* C10: the vendor signature fields of an invoice were written by the
\* identity that is its vendor_id, the client signature fields by the
\* identity that is its client_id.
C10_SignatureFieldsWrittenByOwner ==
  \A id \in InvoiceIds :
    Exists(id) =>
      /\ Row(id).vendor_signed_at # Null =>
           Row(id).vendor_side_writer = Some(Row(id).vendor_id)
      /\ Row(id).client_signed_at # Null =>
           Row(id).client_side_writer = Some(Row(id).client_id)

\* The last request handled by stripe-connect-onboarding.
Onboarding == response.function = "stripe-connect-onboarding"

\* A URL of a request is missing or does not start with 'https://'.
NotSecure(url) == url = Null \/ ~startsWith(url[1], https)

\* C11: the refresh_url and return_url handed to the processor start with
\* 'https://', and a missing or non-https URL of the request is replaced by
\* FRONTEND_URL followed by the fallback path.
C11_RedirectUrlsAreHttps ==
  Onboarding =>
    \A k \in 1..Len(stripeCalls) :
      LET call == stripeCalls[k]
          req == response.request
      IN call.op = "accountLinks.create" =>
           /\ startsWith(call.refresh_url[1], https)
           /\ startsWith(call.return_url[1], https)
           /\ NotSecure(req.refreshUrl) =>
                call.refresh_url[1] = env.FRONTEND_URL \o RefreshPath
           /\ NotSecure(req.returnUrl) =>
                call.return_url[1] = env.FRONTEND_URL \o CompletePath

\* C17: a 'refresh', 'check-status' or 'create-login-link' that the function
\* answers has called the processor only for the account id stored on the
\* caller's vendor profile, and the flags 'check-status' writes to the
\* caller's profile are that account's.
C17_OnlyTheCallersAccount ==
  /\ Onboarding
  /\ response.request.action \in Actions \ {"create"}
  /\ response.status = 200
  =>
    LET caller == response.request.user
        stored == vendor_profiles[caller].stripe_connect_id
    IN /\ \A k \in 1..Len(stripeCalls) : stripeCalls[k].account = stored
       /\ response.request.action = "check-status" =>
            /\ stored # Null
            /\ vendor_profiles[caller].stripe_charges_enabled =
                 accounts[stored[1]][1].charges_enabled
            /\ vendor_profiles[caller].stripe_payouts_enabled =
                 accounts[stored[1]][1].payouts_enabled

\* A pay-now click of tab s on invoice i, and the answer of its lookup.
PayNowClicked(s, i) == handlePayNow(s, i)

LookupAnswered(s) == ui[s].pc = "paynow" /\ ui'[s].pc = "idle"

\* C12: handlePayNow opens a window only with a non-empty hosted URL; with a
\* cached URL it opens that one and makes no lookup; otherwise it makes one
\* lookup and opens the URL found, or reports 'Payment URL not available'
\* (or, when the lookup fails, the failure) and opens nothing.
C12_PayNowOpensOnlyAUrl ==
  [][ /\ windows'.opened # windows.opened =>
           /\ Len(windows'.opened) = Len(windows.opened) + 1
           /\ windows'.opened[Len(windows'.opened)] # <<>>
      /\ \A s \in ClientSessions, i \in InvoiceIds :
           PayNowClicked(s, i) =>
             LET cached == ui[s].invoices[i][1].stripe_hosted_invoice_url IN
             IF cached # Null /\ cached[1] # <<>>
             THEN /\ windows'.opened = Append(windows.opened, cached[1])
                  /\ windows'.lookups = windows.lookups
                  /\ ui'[s].pc = "idle"
             ELSE /\ windows' = windows
                  /\ ui'[s].pc = "paynow"
      /\ \A s \in ClientSessions :
           LookupAnswered(s) =>
             LET found == Row(ui[s].payNow[1]).stripe_hosted_invoice_url IN
             /\ windows'.lookups = windows.lookups + 1
             /\ IF response'.error # Null
                THEN /\ windows'.opened = windows.opened
                     /\ toast'.title = "Error"
                ELSE IF found # Null /\ found[1] # <<>>
                THEN windows'.opened = Append(windows.opened, found[1])
                ELSE /\ windows'.opened = windows.opened
                     /\ toast' = [ title |-> "Error", description |->
                          "Payment URL not available. Please contact the vendor." ]
    ]_vars

\* The client clicked Pay Now on an invoice listed without a hosted URL, the
\* lookup found none, and a later click's lookup found the URL and opened it.
C12_Witness ==
  /\ windows.lookups = 2
  /\ windows.opened = <<HostedUrl("inv1", 1)>>
  /\ \A s \in ClientSessions :
       ui[s].invoices["inv1"][1].stripe_hosted_invoice_url = Null

\* C13: an invoice's status only moves forward along draft -> sent -> paid:
\* no step moves it back, no step changes the status of a paid invoice, and
\* a 'paid' event delivered for a paid invoice leaves the invoice as it is
\* and is answered without an error.
C13_StatusMovesForward ==
  [][ \A i \in InvoiceIds :
        Exists(i) =>
          LET before == Row(i)
              after == invoices'[i][1]
          IN /\ invoices'[i] # Null
             /\ Rank(after.status) >= Rank(before.status)
             /\ before.status = "paid" => after.status = "paid"
             /\ before.status = "paid" /\ webhook(i, "paid") =>
                  after = before /\ response'.error = Null ]_vars

\* The invoice was paid, and after that an event other than 'paid' was
\* delivered for it.
C13_Witness ==
  /\ Row("inv1").status = "paid"
  /\ response.function = "stripe-webhook"
  /\ response.data = Some("payment_failed")

\* A name of no characters, or of spaces only.
Blank(str) == \A k \in 1..Len(str) : str[k] = " "

\* C14: processSignature with no selected invoice or with a blank signature
\* only shows an error message: the store, the payment sessions, the
\* notifications and the component's state (dialog, processing flag) stay as
\* they are.
C14_InvalidSignatureChangesNothing ==
  [][ \A s \in Sessions :
        /\ processSignature(s)
        /\ ui[s].selectedInvoice = Null \/ Blank(ui[s].signature)
        => /\ UNCHANGED <<invoices, stripeSessions, emails, response, ui>>
           /\ toast' = [ title |-> "Error",
                         description |-> "Please enter your signature" ] ]_vars

\* The vendor pressed Sign & Send with a signature of one space.
C14_Witness ==
  /\ toast.description = "Please enter your signature"
  /\ \E s \in Sessions :
       /\ ui[s].signatureModal
       /\ ui[s].signature = <<" ">>
       /\ ~ui[s].processing

\* send-invoice-email has answered the sign attempt of tab s.
EmailAnswered(s) == ui[s].pc = "email" /\ ui'[s].pc # "email"

\* C16: when the notification send of a vendor sign fails, the sign is not
\* reported as 'Invoice signed and sent to client', and the invoice keeps
\* its signature and payment-session fields.
C16_SendFailureIsSurfaced ==
  [][ \A s \in Sessions :
        EmailAnswered(s) /\ response'.error # Null =>
          /\ toast'.title # "Success"
          /\ toast'.description # "Invoice signed and sent to client"
          /\ invoices' = invoices ]_vars

\* C18: each signature pair is null together or set together, and a pair
\* that is set is not written again by any later sign attempt.
C18_SignaturePairsWrittenOnce ==
  /\ [](\A i \in InvoiceIds :
          Exists(i) =>
            /\ Row(i).vendor_signed_at = Null <=> Row(i).vendor_signature_url = Null
            /\ Row(i).client_signed_at = Null <=> Row(i).client_signature_url = Null)
  /\ [][ \A i \in InvoiceIds :
           Exists(i) =>
             /\ Row(i).vendor_signed_at # Null =>
                  /\ invoices'[i][1].vendor_signed_at = Row(i).vendor_signed_at
                  /\ invoices'[i][1].vendor_signature_url = Row(i).vendor_signature_url
             /\ Row(i).client_signed_at # Null =>
                  /\ invoices'[i][1].client_signed_at = Row(i).client_signed_at
                  /\ invoices'[i][1].client_signature_url = Row(i).client_signature_url
       ]_vars

\* Tab s gets to the step `to` of its sign attempt.
Enters(s, to) == ui[s].pc # to /\ ui'[s].pc = to

\* C19: within a vendor sign the signature write comes first, then the
\* payment-session call, then the notification: the payment-session call is
\* made only after the write returned without error, the notification only
\* after the payment-session call returned without error.
C19_SideEffectsInOrder ==
  [][ /\ \A s \in Sessions :
           /\ Enters(s, "profile") =>
                /\ ui[s].pc = "update"
                /\ invoices'[Selected(s)][1].vendor_signed_at = Some(now)
           /\ Enters(s, "stripe") => ui[s].pc = "profile"
           /\ Enters(s, "email") =>
                /\ ui[s].pc = "stripe"
                /\ response'.function = "stripe-create-invoice"
                /\ response'.error = Null
      /\ stripeSessions' # stripeSessions =>
           \E s \in Sessions :
             /\ ui[s].pc = "stripe"
             /\ Row(Selected(s)).vendor_signed_at # Null
             /\ emails[Selected(s)] = 0
      /\ emails' # emails =>
           \E s \in Sessions :
             /\ ui[s].pc = "email"
             /\ ui[s].stripeError = Null
             /\ Row(Selected(s)).vendor_signed_at # Null
             /\ Row(Selected(s)).stripe_hosted_invoice_url # Null ]_vars

\* A sign went through all three steps: the invoice is signed, has its
\* session and its notification was sent.
C19_Witness ==
  /\ Row("inv1").vendor_signed_at # Null
  /\ stripeSessions["inv1"] = 1
  /\ emails["inv1"] = 1

\* C15: send-invoice-email for an invoice whose client has no email address
\* sends no email and answers with an error and status 500, and so does a
\* request whose invoice lookup fails.
C15_NoEmailNoSend ==
  [][ \A id \in InvoiceIds :
        serve_sendInvoiceEmail(id) =>
          /\ ~Exists(id) \/ auth_users[Row(id).client_id] = Null =>
               /\ emails' = emails
               /\ response'.error # Null
               /\ response'.status = 500
          /\ response'.error = Some("invoice error") =>
               emails' = emails /\ response'.status = 500
          /\ response'.status = 200 <=> emails' # emails ]_vars

\* The function was called for an existing invoice of a client without an
\* email address.
C15_Witness ==
  /\ auth_users[Client] = Null
  /\ response.function = "send-invoice-email"
  /\ Exists(response.invoiceId)
  /\ response.error = Some("Client email not found")

\* C20: a client sign with a non-blank name goes ahead whatever the name is,
\* and its update writes client_signed_at and client_signature_url of the
\* selected invoice and nothing else: status, vendor signature fields and
\* payment URLs stay, and no payment-session or notification call is made.
C20_ClientSignWritesOnlyClientPair ==
  [][ \A s \in ClientSessions :
        /\ processSignature(s) /\ ui[s].selectedInvoice # Null
             /\ ~Blank(ui[s].signature)
           => ui'[s].pc = "update"
        /\ processSignature_update(s) =>
             LET id == Selected(s)
                 before == Row(id)
                 after == invoices'[id][1]
             IN /\ [after EXCEPT !.client_signed_at = before.client_signed_at,
                                 !.client_signature_url = before.client_signature_url,
                                 !.client_side_writer = before.client_side_writer]
                     = before
                /\ \A other \in InvoiceIds \ {id} : invoices'[other] = invoices[other]
                /\ toast'.title = "Success" =>
                     /\ after.client_signed_at = Some(now)
                     /\ after.client_signature_url = Some(ui[s].signature)
                     /\ toast'.description = "Invoice acknowledged"
                /\ UNCHANGED <<stripeSessions, emails, response>> ]_vars

\* The client acknowledged a sent invoice under a name that is nobody's name
\* on file.
C20_Witness ==
  /\ toast = [title |-> "Success", description |-> "Invoice acknowledged"]
  /\ Row("inv1").client_signature_url = Some(<<"Z">>)
  /\ Row("inv1").client_signed_at # Null
  /\ Row("inv1").status = "sent"

\* C21: set_invoice_number fills only the unset fields: a non-null
\* legal_invoice_number, invoice_number, issued_at or tax_point is returned
\* as given; a null invoice_number becomes the row's legal_invoice_number; a
\* null issued_at or tax_point becomes the current time; none of the four is
\* null afterwards, and nothing else of the row is changed.
C21_TriggerFillsOnlyUnset ==
  \A id \in InvoiceIds :
    inserting[id] # Null /\ invoices[id] # Null =>
      LET given == inserting[id][1]
          stored == invoices[id][1]
      IN /\ given.legal_invoice_number # Null =>
              stored.legal_invoice_number = given.legal_invoice_number
         /\ given.invoice_number # Null =>
              stored.invoice_number = given.invoice_number
         /\ given.issued_at # Null => stored.issued_at = given.issued_at
         /\ given.tax_point # Null => stored.tax_point = given.tax_point
         /\ given.invoice_number = Null =>
              stored.invoice_number = stored.legal_invoice_number
         /\ given.issued_at = Null => stored.issued_at = Some(now)
         /\ given.tax_point = Null => stored.tax_point = Some(now)
         /\ stored.legal_invoice_number # Null
         /\ stored.invoice_number # Null
         /\ stored.issued_at # Null
         /\ stored.tax_point # Null
         /\ [stored EXCEPT !.legal_invoice_number = given.legal_invoice_number,
                           !.invoice_number = given.invoice_number,
                           !.issued_at = given.issued_at,
                           !.tax_point = given.tax_point] = given

\* The trigger ran on a row that supplied its legal number and left the
\* invoice number out, and on a row that supplied nothing.
C21_Witness ==
  /\ invoices["inv1"] # Null
  /\ inserting["inv1"][1].legal_invoice_number = Some(7)
  /\ inserting["inv1"][1].invoice_number = Null
  /\ invoices["inv1"][1].invoice_number = Some(7)
  /\ invoices["inv2"] # Null
  /\ inserting["inv2"][1].legal_invoice_number = Null
  /\ inserting["inv2"][1].issued_at = Null

\* C22: a vendor sign by a vendor whose profile has no stripe_connect_id has
\* written the signature before it stops: at the profile lookup the invoice
\* has vendor_signed_at and vendor_signature_url set, and the attempt ends
\* with 'Stripe Setup Required', without a payment-session call or a
\* notification and without fetching the list again, so that the tab still
\* offers the sign action for the invoice.
C22_SignedBeforeSetupRequired ==
  [][ \A s \in Sessions :
        /\ processSignature_profile(s)
        /\ vendor_profiles[userId(s)].stripe_connect_id = Null
        => LET id == Selected(s)
               listed == ui'[s].invoices[id]
           IN /\ Row(id).vendor_signed_at # Null
              /\ Row(id).vendor_signature_url # Null
              /\ UNCHANGED <<invoices, stripeSessions, emails, response>>
              /\ toast'.title = "Stripe Setup Required"
              /\ ui'[s].pc = "idle"
              /\ ~ui'[s].loading
              /\ ~ui'[s].processing
              /\ ui'[s].invoices = ui[s].invoices
              /\ listed # Null
              /\ listed[1].vendor_signed_at = Null
              /\ listed[1].status = "draft" ]_vars

\* The attempt has ended with 'Stripe Setup Required': the invoice is signed
\* in the store and unsigned in the list of a tab that offers to sign it.
C22_Witness ==
  /\ toast.title = "Stripe Setup Required"
  /\ vendor_profiles[Vendor].stripe_connect_id = Null
  /\ Row("inv1").vendor_signed_at # Null
  /\ Row("inv1").status = "draft"
  /\ stripeSessions["inv1"] = 0
  /\ emails["inv1"] = 0
  /\ \E s \in Sessions : SignButtonShown(s, "inv1") /\ ui[s].signatureModal

\* The connected accounts created at the processor for vendor u.
AccountsOf(u) ==
  {a \in AccountIds : accounts[a] # Null /\ accounts[a][1].vendor_id = u}

\* C23: whatever 'create' requests a vendor makes, at most one connected
\* account is created at the processor for that vendor, and a
\* stripe_connect_id that is set on the vendor's profile is not replaced.
C23_OneAccountPerVendor ==
  /\ [](\A u \in Vendors : Cardinality(AccountsOf(u)) <= 1)
  /\ [][ \A u \in Vendors :
           vendor_profiles[u].stripe_connect_id # Null =>
             vendor_profiles'[u].stripe_connect_id =
               vendor_profiles[u].stripe_connect_id ]_vars

\* A request that carries no valid user, or an action that is none of the
\* four.
Rejected(req) == req.user = Anon \/ req.action \notin Actions

\* C24: a request without a valid authenticated user, or with an action
\* outside create, refresh, check-status and create-login-link, is answered
\* with an error and status 400, and makes no processor call and no write to
\* vendor_profiles.
C24_RejectedRequestsDoNothing ==
  [][ /\ response'.function = "stripe-connect-onboarding"
      /\ Rejected(response'.request)
      /\ <<response, stripeCalls>>' # <<response, stripeCalls>>
      => /\ response'.status = 400
         /\ response'.error # Null
         /\ response'.data = Null
         /\ stripeCalls' = <<>>
         /\ UNCHANGED <<vendor_profiles, accounts>> ]_vars

\* A request without a valid user asked to create an account after a vendor
\* had created one: it was refused and no second account exists.
C24_Witness ==
  /\ response.function = "stripe-connect-onboarding"
  /\ response.request.user = Anon
  /\ response.request.action = "create"
  /\ response.error = Some("Unauthorized")
  /\ stripeCalls = <<>>
  /\ accounts["acct1"] # Null
  /\ accounts["acct2"] = Null

\* C25: once the role check has finished, a signed-in user who holds neither
\* the admin role nor any role of allowedUserTypes is not shown the
\* children: RoleGuard renders a redirect.
C25_NoRoleNoChildren ==
  /\ guard.pc = "done"
  /\ guard.user # Null
  /\ ~guard.loading
  /\ ~guard.checkingRole
  /\ "admin" \notin user_roles[guard.user[1]]
  /\ \A k \in 1..Len(guard.allowedUserTypes) :
       guard.allowedUserTypes[k] \notin user_roles[guard.user[1]]
  => RoleGuard \in {"/", "/auth"}

====
